---- MODULE Spec2Model ----
(***************************************************************************)
(* Model of the vector-grouping code of Visual-Search:                     *)
(*   - KMeans (src/k_means.py): Lloyd's algorithm, one action per call,   *)
(*     per loop iteration and per return;                                  *)
(*   - VectorDatabase (src/vector_database.py): insert_vectors and the     *)
(*     grouping dictionary self.vectors.                                   *)
(* Arithmetic is exact: a centroid is kept as the pair (sum, count) of the *)
(* vectors it is the mean of, count 0 standing for the not-a-number row    *)
(* numpy returns for the mean of an empty selection.                       *)
(***************************************************************************)
EXTENDS Integers, Sequences, FiniteSets, TLC

VARIABLES
    X,             \* KMeans: the caller's dataset, the X of its fit calls
    k,             \* KMeans: self.k
    random_state,  \* KMeans: self.random_state (NoSeed or <<seed>>)
    rng,           \* the process-wide numpy generator state
    max_iter,      \* KMeans: argument of the running/last fit call
    given,         \* KMeans: TRUE iff init_centroids was supplied
    centroids,     \* KMeans: self.centroids, a function on 0..k-1
    labels,        \* KMeans: the local labels (<<>> while unbound)
    iter,          \* KMeans: number of loop iterations started so far
    pc,            \* KMeans: "idle", "loop", "break", "returned", "error"
    broke,         \* KMeans: the loop of the running/last call ended by break
    assigned,      \* history: the centroids the labels were computed against
    prevLabels,    \* history: the labels before the last iteration
    ref,           \* history: first seeded, sampled result (or NoRef)
    vectors,       \* VectorDatabase: self.vectors, insertion-ordered dict
    collection,    \* VectorDatabase: entities held by the external store
    raised,        \* VectorDatabase: the last insert_vectors call raised
    inserted,      \* history: the vectors passed to insert_vectors so far
    last           \* history: the last _add_vector_to_group call

kmvars == <<X, k, random_state, rng, max_iter, given, centroids, labels, iter,
            pc, broke, assigned, prevLabels, ref>>
dbvars == <<vectors, collection, raised, inserted, last>>
vars == <<X, k, random_state, rng, max_iter, given, centroids, labels, iter,
          pc, broke, assigned, prevLabels, ref, vectors, collection, raised,
          inserted, last>>

(***************************************************************************)
(* Bounds of the model.                                                    *)
(***************************************************************************)
MaxN == 3
MaxIter == 2
MaxSeed == 1

MaxId == 2
MaxBatch == 2
MaxExisting == 1
StreamLen == 3

Points == {<<0, 0>>, <<1, 0>>, <<4, 1>>}
InitPoints == {<<0, 0>>, <<1, 0>>}

NoSeed == <<>>
Seeds == {<<s>> : s \in 0..MaxSeed}
NoRef == <<>>
NoLabels == <<>>
NaN == [s |-> <<0, 0>>, c |-> 0]

Vecs == {<<1, 0>>, <<2, 0>>, <<0, 1>>, <<0 - 1, 0>>}
NoCall == <<>>

Datasets == UNION {[1..n -> Points] : n \in 1..MaxN}

(***************************************************************************)
(* Integer helpers.                                                        *)
(***************************************************************************)
Abs(a) == IF a < 0 THEN 0 - a ELSE a

RECURSIVE GCD(_, _)
GCD(a, b) == IF b = 0 THEN a ELSE GCD(b, a % b)

(***************************************************************************)
(* The process-wide numpy generator (MT19937 behind np.random).  Its state *)
(* is Entropy, the state numpy takes from the operating system at import   *)
(* and of which nothing is known, or [seed, pos]: seeded by                *)
(* np.random.seed(seed), pos 32-bit outputs consumed since.                *)
(***************************************************************************)
Entropy == [seed |-> 0 - 1, pos |-> 0]

\* The low byte of the first ten outputs of MT19937 after np.random.seed(s),
\* for s = 0, 1, 2, 3; a shuffle of up to 256 rows reads no other bits.
MTWords == <<
    <<172, 47, 117, 192, 67, 251, 195, 103, 9, 211>>,
    <<37, 235, 140, 72, 255, 137, 203, 133, 79, 192>>,
    <<168, 15, 237, 72, 22, 43, 210, 75, 104, 7>>,
    <<106, 152, 249, 131, 184, 200, 0, 21, 253, 147>>
>>

Word(r) == MTWords[r.seed + 1][r.pos + 1]

\* A seeded generator that has produced more than StreamLen outputs: the
\* model does not follow its stream any further.
Past(r) == [r EXCEPT !.pos = StreamLen + 1]

Followed(r) == r # Entropy /\ r.pos <= StreamLen

SeedState(s) == [seed |-> s, pos |-> 0]

\* The smallest 2^b - 1 that is >= max.
RECURSIVE MaskFrom(_, _)
MaskFrom(m, max) == IF m >= max THEN m ELSE MaskFrom(2 * m + 1, max)

\* numpy's random_interval: outputs are masked and rejected until one is
\* <= max.  A read of an output after the first StreamLen ends in Past.
RECURSIVE RandomInterval(_, _)
RandomInterval(r, max) ==
    IF max = 0 THEN [val |-> 0, rng |-> r]
    ELSE IF r.pos >= StreamLen THEN [val |-> 0, rng |-> Past(r)]
    ELSE LET v == Word(r) % (MaskFrom(1, max) + 1)
             n == [r EXCEPT !.pos = @ + 1]
         IN  IF v <= max THEN [val |-> v, rng |-> n] ELSE RandomInterval(n, max)

Swap(arr, i, j) ==
    [p \in 1..Len(arr) |-> IF p = i THEN arr[j] ELSE IF p = j THEN arr[i] ELSE arr[p]]

\* numpy's shuffle: for i = n-1 down to 1, swap arr[i] with arr[j], j drawn
\* from [0, i].
RECURSIVE Shuffle(_, _, _)
Shuffle(r, arr, i) ==
    IF i < 1 THEN [perm |-> arr, rng |-> r]
    ELSE LET d == RandomInterval(r, i)
         IN  Shuffle(d.rng, Swap(arr, i + 1, d.val + 1), i - 1)

Arange(n) == [i \in 1..n |-> i - 1]

AllPermutations(n) ==
    {p \in [1..n -> 0..(n - 1)] : \A i, j \in 1..n : i # j => p[i] # p[j]}

\* np.random.permutation(n): the outcomes [perm, rng].  One outcome, numpy's,
\* while the shuffle reads followed outputs of a seeded generator; every
\* ordering for Entropy and for a shuffle that reads past them.
Permutation(r, n) ==
    IF r = Entropy
    THEN {[perm |-> p, rng |-> Entropy] : p \in AllPermutations(n)}
    ELSE LET d == Shuffle(r, Arange(n), n - 1)
         IN  IF Followed(d.rng) THEN {d}
             ELSE {[perm |-> p, rng |-> Past(r)] : p \in AllPermutations(n)}

\* np.random.choice(n, size, replace=False): the first size entries of a
\* permutation, as 0-based row indices.
Choice(r, n, size) ==
    {[idx |-> SubSeq(d.perm, 1, size), rng |-> d.rng] : d \in Permutation(r, n)}

\* Faulty variant of SeededState: the seed is never applied.
SeededStateUnseeded(rs, r) == r

SeededState(rs, r) == IF rs # NoSeed THEN SeedState(rs[1]) ELSE r

(***************************************************************************)
(* Distances, assignment, update, convergence.                             *)
(***************************************************************************)
IsNaN(c) == c.c = 0

Row(x) == [s |-> x, c |-> 1]

\* Numerator of |x - c|^2 over the denominator c.c^2.
Dist2Num(x, c) ==
    (c.c * x[1] - c.s[1]) * (c.c * x[1] - c.s[1])
  + (c.c * x[2] - c.s[2]) * (c.c * x[2] - c.s[2])

\* |x - a| <= |x - b| for two defined centroids.
DistLeq(x, a, b) == Dist2Num(x, a) * b.c * b.c <= Dist2Num(x, b) * a.c * a.c

Min(S) == CHOOSE m \in S : \A o \in S : m <= o

Max(S) == CHOOSE m \in S : \A o \in S : o <= m

\* Faulty variant of ArgMin: a tie goes to the highest index.
ArgMinLast(x, cents) ==
    LET J == DOMAIN cents
        nans == {j \in J : IsNaN(cents[j])}
    IN  IF nans # {} THEN Min(nans)
        ELSE Max({j \in J : \A o \in J : DistLeq(x, cents[j], cents[o])})

ArgMin(x, cents) ==
    LET J == DOMAIN cents
        nans == {j \in J : IsNaN(cents[j])}
    IN  IF nans # {} THEN Min(nans)
        ELSE Min({j \in J : \A o \in J : DistLeq(x, cents[j], cents[o])})

AssignLabels(data, cents) == [i \in 1..Len(data) |-> ArgMin(data[i], cents)]

RECURSIVE SumOver(_, _, _, _)
SumOver(data, labs, j, i) ==
    IF i = 0 THEN NaN
    ELSE LET rest == SumOver(data, labs, j, i - 1)
         IN  IF labs[i] = j
             THEN [s |-> <<rest.s[1] + data[i][1], rest.s[2] + data[i][2]>>,
                   c |-> rest.c + 1]
             ELSE rest

Mean(data, labs, j) == SumOver(data, labs, j, Len(data))

UpdateRange(kk) == 0..(kk - 1)

\* Faulty variant of NewCentroids: labels without vectors get no row.
NewCentroidsNonEmpty(data, labs, kk) ==
    [j \in {l \in UpdateRange(kk) : \E i \in 1..Len(data) : labs[i] = l} |->
        Mean(data, labs, j)]

NewCentroids(data, labs, kk) == [j \in UpdateRange(kk) |-> Mean(data, labs, j)]

AtolInv == 100000000
RtolMilli == 1000

\* |a - b| <= atol + rtol * |b| on one coordinate, a = sa/ca, b = sb/cb.
CloseCoord(sa, ca, sb, cb) ==
    Abs(sa * cb - sb * ca) <= (ca * cb + RtolMilli * Abs(sb) * ca) \div AtolInv

AllClose(old, new) ==
    \A j \in DOMAIN new :
        /\ ~IsNaN(old[j])
        /\ ~IsNaN(new[j])
        /\ CloseCoord(old[j].s[1], old[j].c, new[j].s[1], new[j].c)
        /\ CloseCoord(old[j].s[2], old[j].c, new[j].s[2], new[j].c)

(***************************************************************************)
(* The clustering cost as a reduced fraction <<num, den>>.                 *)
(***************************************************************************)
Reduce(n, d) == LET g == GCD(n, d) IN <<n \div g, d \div g>>

AddFrac(a, b) == Reduce(a[1] * b[2] + b[1] * a[2], a[2] * b[2])

RECURSIVE CostUpTo(_, _, _, _)
CostUpTo(data, labs, cents, i) ==
    IF i = 0 THEN <<0, 1>>
    ELSE LET c == cents[labs[i]]
         IN  AddFrac(CostUpTo(data, labs, cents, i - 1),
                     Reduce(Dist2Num(data[i], c), c.c * c.c))

Cost(data, labs, cents) == CostUpTo(data, labs, cents, Len(data))

FracLeq(a, b) == a[1] * b[2] <= b[1] * a[2]

(***************************************************************************)
(* KMeans.fit (src/k_means.py).                                            *)
(***************************************************************************)
SuppliedCentroids(kk) == [UpdateRange(kk) -> {Row(p) : p \in InitPoints}]

\* Line 38: X[idx], the rows of the sampled indices.
SampledCentroids(data, idx) == [j \in 0..(Len(idx) - 1) |-> Row(data[idx[j + 1] + 1])]

Callable == pc \in {"idle", "returned", "error"}

\* Lines 35-41: the call and the initialisation of self.centroids.
FitSampled(mi) ==
    /\ Callable
    /\ max_iter' = mi
    /\ given' = FALSE
    /\ iter' = 0
    /\ labels' = NoLabels
    /\ broke' = FALSE
    /\ prevLabels' = NoLabels
    /\ LET r == SeededState(random_state, rng)
       IN  IF k > Len(X)
           THEN \* np.random.choice: larger sample than population
                /\ rng' = r
                /\ pc' = "error"
                /\ UNCHANGED <<centroids, assigned>>
           ELSE \E c \in Choice(r, Len(X), k) :
                /\ rng' = c.rng
                /\ centroids' = SampledCentroids(X, c.idx)
                /\ assigned' = centroids'
                /\ pc' = "loop"
    /\ UNCHANGED <<X, k, random_state, ref>>
    /\ UNCHANGED dbvars

FitSupplied(mi, init) ==
    /\ Callable
    /\ max_iter' = mi
    /\ given' = TRUE
    /\ iter' = 0
    /\ labels' = NoLabels
    /\ broke' = FALSE
    /\ prevLabels' = NoLabels
    /\ centroids' = init
    /\ assigned' = init
    /\ pc' = "loop"
    /\ UNCHANGED <<X, k, random_state, rng, ref>>
    /\ UNCHANGED dbvars

Fit ==
    \E mi \in 0..MaxIter :
        \/ FitSampled(mi)
        \/ \E init \in SuppliedCentroids(k) : FitSupplied(mi, init)

\* Faulty variant of NextIter: the loop counter does not advance.
NextIterStuck(i) == i

NextIter(i) == i + 1

\* Lines 43-57: one pass of the loop body.
Iterate ==
    /\ pc = "loop"
    /\ iter < max_iter
    /\ IF DOMAIN centroids = {}
       THEN \* the pass has begun: np.argmin over an empty row raises ValueError
            /\ pc' = "error"
            /\ iter' = NextIter(iter)
            /\ UNCHANGED <<centroids, labels, broke, assigned, prevLabels>>
       ELSE \E labs \in {AssignLabels(X, centroids)} :
            \E new_centroids \in {NewCentroids(X, labs, k)} :
                /\ labels' = labs
                /\ assigned' = centroids
                /\ iter' = NextIter(iter)
                /\ prevLabels' = labels
                /\ IF AllClose(centroids, new_centroids)
                   THEN /\ pc' = "break"
                        /\ broke' = TRUE
                        /\ UNCHANGED centroids
                   ELSE /\ pc' = "loop"
                        /\ broke' = FALSE
                        /\ centroids' = new_centroids
    /\ UNCHANGED <<X, k, random_state, rng, max_iter, given, ref>>
    /\ UNCHANGED dbvars

Result == [cents |-> centroids, labels |-> labels]

\* Line 59: the loop is left by break or by exhausting range(max_iter).
Return ==
    /\ \/ pc = "break"
       \/ pc = "loop" /\ iter = max_iter
    /\ IF labels = NoLabels
       THEN \* max_iter = 0: labels was never bound
            /\ pc' = "error"
            /\ UNCHANGED ref
       ELSE /\ pc' = "returned"
            /\ ref' = IF given \/ random_state = NoSeed THEN ref
                      ELSE IF ref = NoRef
                           THEN <<[mi |-> max_iter, res |-> Result, runs |-> 1]>>
                      ELSE IF ref[1].mi = max_iter
                           THEN <<[ref[1] EXCEPT !.runs = 2]>>
                      ELSE ref
    /\ UNCHANGED <<X, k, random_state, rng, max_iter, given, centroids, labels,
                   iter, broke, assigned, prevLabels>>
    /\ UNCHANGED dbvars

\* A fit of another KMeans object of the process, sampling its centroids
\* from the same process-wide generator (lines 36-39).
FitOther ==
    /\ Callable
    /\ rng' \in UNION {{d.rng : d \in Permutation(SeededState(rs, rng), n)} :
                        rs \in Seeds \cup {NoSeed}, n \in 1..MaxN}
    /\ UNCHANGED <<X, k, random_state, max_iter, given, centroids, labels,
                   iter, pc, broke, assigned, prevLabels, ref>>
    /\ UNCHANGED dbvars

\* The states a generator in state r can be in after more draws.
Later(r) ==
    IF r = Entropy THEN {Entropy}
    ELSE {[r EXCEPT !.pos = q] : q \in r.pos..(StreamLen + 1)}

\* TSNEDimensionReducer.reduce_dimensions (src/dimension_reduction.py): TSNE
\* is built without random_state and draws from the process-wide generator.
ReduceDimensions ==
    /\ Callable
    /\ rng' \in Later(rng)
    /\ UNCHANGED <<X, k, random_state, max_iter, given, centroids, labels,
                   iter, pc, broke, assigned, prevLabels, ref>>
    /\ UNCHANGED dbvars

\* No VectorDatabase object is in use.
NoDatabase ==
    /\ vectors = <<>>
    /\ collection = {}
    /\ raised = FALSE
    /\ inserted = {}
    /\ last = NoCall

StartKM ==
    /\ X \in Datasets
    /\ k \in 0..(Len(X) + 1)
    /\ rng = Entropy
    /\ max_iter = 0
    /\ given = FALSE
    /\ centroids = <<>>
    /\ labels = NoLabels
    /\ iter = 0
    /\ pc = "idle"
    /\ broke = FALSE
    /\ assigned = <<>>
    /\ prevLabels = NoLabels
    /\ ref = NoRef

\* KMeans(k): random_state defaults to None.
InitKM == StartKM /\ random_state = NoSeed /\ NoDatabase

\* KMeans(k, random_state = S).
InitSeeded == StartKM /\ random_state \in Seeds /\ NoDatabase

\* The calls on one KMeans object, the generator's only user.
NextKM == Fit \/ Iterate \/ Return

\* The calls of a caller that never supplies init_centroids, among the
\* other users of the generator in the process.
NextSampled ==
    \/ \E mi \in 0..MaxIter : FitSampled(mi)
    \/ Iterate
    \/ Return
    \/ FitOther
    \/ ReduceDimensions

SpecKM == InitKM /\ [][NextKM]_vars

SpecSeeded == InitSeeded /\ [][NextSampled]_vars

\* The first call of fit on a new object.
FirstFit == pc = "idle" /\ Fit

NextFirst == FirstFit \/ Iterate \/ Return

\* fit is a synchronous call: once entered, its loop and its return run.
SpecFirstFit ==
    InitKM /\ [][NextFirst]_vars /\ WF_vars(Iterate) /\ WF_vars(Return)

(***************************************************************************)
(* VectorDatabase (src/vector_database.py).  self.vectors is a dict: it is *)
(* kept as the sequence of its items [key, group] in insertion order, the  *)
(* order in which Python iterates it.                                      *)
(***************************************************************************)
Dot(a, b) == a[1] * b[1] + a[2] * b[2]

Sign(a) == IF a < 0 THEN 0 - 1 ELSE IF a = 0 THEN 0 ELSE 1

\* sklearn's cosine_similarity, exact on vectors whose cosine is an integer.
CosineSimilarity(a, b) ==
    CHOOSE c \in {0 - 1, 0, 1} :
        /\ Sign(c) = Sign(Dot(a, b))
        /\ c * c * Dot(a, a) * Dot(b, b) = Dot(a, b) * Dot(a, b)

\* Lines 115-118: the similarities to every stored vector.
CosineSimilarities(d, v) ==
    UNION {{CosineSimilarity(v, d[i].group[j]) : j \in 1..Len(d[i].group)} :
            i \in 1..Len(d)}

\* Line 120: max(cosine_similarities, default=0).
MaxSimilarity(d, v) ==
    IF CosineSimilarities(d, v) = {} THEN 0 ELSE Max(CosineSimilarities(d, v))

\* self.vectors[key] = val: replaces the value of a present key in place,
\* appends a new item otherwise.
SetItem(d, key, val) ==
    IF \E i \in 1..Len(d) : d[i].key = key
    THEN [i \in 1..Len(d) |-> IF d[i].key = key
                              THEN [key |-> key, group |-> val] ELSE d[i]]
    ELSE Append(d, [key |-> key, group |-> val])

\* Lines 121-126: the loop over self.vectors.items().  The iterator raises
\* RuntimeError when asked for an item after the dict has changed size.
RECURSIVE GroupLoop(_, _, _, _, _)
GroupLoop(d, size, i, v, m) ==
    IF Len(d) # size THEN [store |-> d, raised |-> TRUE]
    ELSE IF i > size THEN [store |-> d, raised |-> FALSE]
    ELSE IF m = d[i].key
         THEN [store |-> [d EXCEPT ![i].group = Append(@, v)], raised |-> FALSE]
         ELSE GroupLoop(SetItem(d, m, <<v>>), size, i + 1, v, m)

AddVectorToGroup(d, v) == GroupLoop(d, Len(d), 1, v, MaxSimilarity(d, v))

\* Lines 75-76: the vectors of the batch in order; an exception ends the call.
RECURSIVE InsertLoop(_, _, _, _)
InsertLoop(d, batch, i, call) ==
    IF i > Len(batch) THEN [store |-> d, raised |-> FALSE, call |-> call]
    ELSE LET r == AddVectorToGroup(d, batch[i])
             c == <<[pre |-> d, v |-> batch[i], post |-> r.store,
                     raised |-> r.raised, later |-> call # NoCall]>>
         IN  IF r.raised THEN [store |-> r.store, raised |-> TRUE, call |-> c]
             ELSE InsertLoop(r.store, batch, i + 1, c)

ListId == {e.id : e \in collection}

\* Lines 93-100: ids drawn at random until enough fresh, distinct ones are found.
UniqueIds(num) ==
    {ids \in [1..num -> (0..MaxId) \ ListId] :
        \A i, j \in 1..num : i # j => ids[i] # ids[j]}

\* Lines 71-76.
InsertVectors ==
    \E n \in 0..MaxBatch :
        \E batch \in [1..n -> Vecs] :
            \E ids \in UniqueIds(n) :
                LET r == InsertLoop(vectors, batch, 1, last)
                IN  /\ collection' = collection \cup
                            {[id |-> ids[i], feature |-> batch[i]] : i \in 1..n}
                    /\ vectors' = r.store
                    /\ raised' = r.raised
                    /\ inserted' = inserted \cup {batch[i] : i \in 1..n}
                    /\ last' = r.call
                    /\ UNCHANGED kmvars

\* Lines 168-173: the collection is dropped and one of the same name is
\* created; the result of _get_collection is discarded and the groups of
\* self.vectors are kept.
DeleteAllVectors ==
    /\ collection' = {}
    /\ UNCHANGED <<vectors, raised, inserted, last>>
    /\ UNCHANGED kmvars

Entities == [id : 0..MaxId, feature : Vecs]

\* Lines 50-51: the contents of a collection of that name found on the server.
ExistingCollections ==
    {c \in SUBSET Entities :
        /\ Cardinality(c) <= MaxExisting
        /\ \A e, f \in c : e.id = f.id => e = f}

\* Lines 36-39 and 50-60: the collection is reopened with what it holds, or
\* created empty; self.vectors is empty.
StartDB ==
    /\ vectors = <<>>
    /\ collection \in ExistingCollections
    /\ raised = FALSE
    /\ inserted = {}
    /\ last = NoCall

\* No KMeans object is in use.
NoKMeans ==
    /\ X = <<>>
    /\ k = 0
    /\ random_state = NoSeed
    /\ rng = Entropy
    /\ max_iter = 0
    /\ given = FALSE
    /\ centroids = <<>>
    /\ labels = NoLabels
    /\ iter = 0
    /\ pc = "unused"
    /\ broke = FALSE
    /\ assigned = <<>>
    /\ prevLabels = NoLabels
    /\ ref = NoRef

NextDB == InsertVectors \/ DeleteAllVectors

InitDB == NoKMeans /\ StartDB

SpecDB == InitDB /\ [][NextDB]_vars

Init == StartKM /\ random_state \in Seeds \cup {NoSeed} /\ StartDB

Next ==
    \/ Fit
    \/ Iterate
    \/ Return
    \/ FitOther
    \/ ReduceDimensions
    \/ InsertVectors
    \/ DeleteAllVectors

Spec == Init /\ [][Next]_vars

(***************************************************************************)
(* The claims about KMeans.fit.                                            *)
(***************************************************************************)
ValidK == k >= 1 /\ k <= Len(X)

InLoopOrAfter == pc \in {"loop", "break", "returned"} /\ iter >= 1

Empty(j) == \A i \in 1..Len(X) : labels[i] # j

\* The centroid c has the value of the vector x.
IsVector(c, x) == ~IsNaN(c) /\ c.s[1] = c.c * x[1] /\ c.s[2] = c.c * x[2]

NoNaN(cents) == \A j \in DOMAIN cents : ~IsNaN(cents[j])

\* j is the lowest index of a centroid at minimum distance from x.
LowestNearest(x, cents, j) ==
    /\ j \in DOMAIN cents
    /\ \A o \in DOMAIN cents : DistLeq(x, cents[j], cents[o])
    /\ \A o \in DOMAIN cents : o < j => ~DistLeq(x, cents[o], cents[j])

\* numpy's argmin of the distances to cents: an undefined distance counts as
\* the minimum.
NearestOrUndefined(x, cents, j) ==
    IF NoNaN(cents) THEN LowestNearest(x, cents, j)
    ELSE /\ j \in DOMAIN cents
         /\ IsNaN(cents[j])
         /\ \A o \in DOMAIN cents : o < j => ~IsNaN(cents[o])

\* C1: for 1 <= k <= n, fit returns exactly k centroids and exactly n labels,
\* and every returned label is an integer in [0, k).
C1_ReturnShape ==
    (pc = "returned" /\ ValidK) =>
        /\ DOMAIN centroids = 0..(k - 1)
        /\ Cardinality(DOMAIN centroids) = k
        /\ DOMAIN labels = 1..Len(X)
        /\ \A i \in 1..Len(X) : labels[i] \in 0..(k - 1)

\* A returned run with k = 2 of 3 vectors that took two iterations.
C1_Witness ==
    /\ pc = "returned"
    /\ k = 2
    /\ Len(X) = 3
    /\ iter = 2
    /\ NoNaN(centroids)
    /\ \E i, j \in 1..3 : labels[i] # labels[j]

\* C4: the sum of the squared distances of the vectors to the centroid of
\* their label does not increase from one loop iteration to the next.
C4_CostNonIncreasing ==
    (InLoopOrAfter /\ ValidK /\ prevLabels # NoLabels) =>
        FracLeq(Cost(X, labels, centroids), Cost(X, prevLabels, assigned))

\* C5: two seeded fits without init_centroids on the same dataset, k and
\* max_iter return identical centroids and labels, whatever was drawn from
\* the generator in between.
C5_SeededRunsAgree ==
    (pc = "returned" /\ ~given /\ random_state # NoSeed /\ ref # NoRef) =>
        (ref[1].mi = max_iter => ref[1].res = Result)

\* A second seeded run with the same arguments has returned.
C5_Witness ==
    /\ pc = "returned"
    /\ ~given
    /\ random_state # NoSeed
    /\ ref # NoRef
    /\ ref[1].runs = 2
    /\ ref[1].mi = max_iter
    /\ k = 2
    /\ Len(X) = 3
    /\ X[1] # X[2] /\ X[2] # X[3] /\ X[1] # X[3]

\* C6: with k outside [1, n] fit fails before any iteration begins and
\* never returns centroids and labels.
C6_InvalidKRejected ==
    ~ValidK => (pc \notin {"break", "returned"} /\ iter = 0 /\ labels = NoLabels)

\* C8: after an update step that finds a label with no vectors, that
\* centroid is its previous value or a dataset vector, never undefined.
C8_EmptyClusterDefined ==
    (InLoopOrAfter /\ ValidK) =>
        \A j \in 0..(k - 1) :
            Empty(j) =>
                /\ ~IsNaN(centroids[j])
                /\ \/ centroids[j] = assigned[j]
                   \/ \E i \in 1..Len(X) : IsVector(centroids[j], X[i])

\* C10 as stated: on every return path the returned labels are the
\* nearest-centroid assignment with respect to the returned centroids
\* (checked on the runs whose returned centroids are all defined).
C10_LabelsNearestReturned ==
    (pc = "returned" /\ ValidK /\ NoNaN(centroids)) =>
        \A i \in 1..Len(X) : LowestNearest(X[i], centroids, labels[i])

\* C10 amended: after a break the returned labels are the nearest-centroid
\* assignment with respect to the returned centroids; after the
\* max_iter cutoff they are the assignment with respect to the centroids
\* held before the last update.
C10_LabelsNearestAssigned ==
    pc = "returned" =>
        /\ broke =>
            /\ NoNaN(centroids)
            /\ \A i \in 1..Len(X) : LowestNearest(X[i], centroids, labels[i])
        /\ ~broke =>
            \A i \in 1..Len(X) : NearestOrUndefined(X[i], assigned, labels[i])

\* A run cut off by max_iter whose labels are stale for a returned centroid.
C10_Witness ==
    /\ pc = "returned"
    /\ ~broke
    /\ ValidK
    /\ NoNaN(centroids)
    /\ \E i \in 1..Len(X) : ~LowestNearest(X[i], centroids, labels[i])

\* C9: for max_iter >= 1 a call ends after at most max_iter iterations, and
\* a call that exhausts the budget without converging returns normally.
C9_Terminates ==
    /\ [](iter <= max_iter)
    /\ [][(pc = "loop" /\ iter = max_iter /\ max_iter >= 1) => pc' = "returned"]_vars
    /\ (pc = "loop" /\ k >= 1 /\ max_iter >= 1) ~> (pc = "returned")

\* A run that used its whole budget of two iterations without converging.
C9_Witness ==
    /\ pc = "returned"
    /\ ~broke
    /\ max_iter = 2
    /\ iter = max_iter

(***************************************************************************)
(* The claims about VectorDatabase.                                        *)
(***************************************************************************)
Called == last # NoCall

\* The groups of d that hold the vector v.
GroupsOf(d, v) ==
    {i \in 1..Len(d) : \E j \in 1..Len(d[i].group) : d[i].group[j] = v}

\* The stored vectors of d in scan order, as <<group index, vector>>.
RECURSIVE Scan(_, _)
Scan(d, i) ==
    IF i > Len(d) THEN <<>>
    ELSE [j \in 1..Len(d[i].group) |-> <<i, d[i].group[j]>>] \o Scan(d, i + 1)

\* The group of the first stored vector with maximum similarity to v.
BestGroup(d, v) ==
    LET sc == Scan(d, 1)
        best == Min({p \in 1..Len(sc) :
                        \A q \in 1..Len(sc) :
                            CosineSimilarity(v, sc[q][2]) <=
                            CosineSimilarity(v, sc[p][2])})
    IN  sc[best][1]

\* C2: a vector inserted into a store with no groups creates exactly one
\* group holding it, and an identical second vector joins that group.
C2_FirstInsertCreatesGroup ==
    (Called /\ last[1].pre = <<>>) =>
        /\ Len(last[1].post) = 1
        /\ last[1].post[1].group = <<last[1].v>>
        /\ LET second == AddVectorToGroup(last[1].post, last[1].v)
           IN  /\ ~second.raised
               /\ Len(second.store) = 1
               /\ second.store[1].group = <<last[1].v, last[1].v>>

\* C3: every inserted vector is a member of exactly one group.
C3_InsertedInOneGroup ==
    \A v \in inserted : Cardinality(GroupsOf(vectors, v)) = 1

====
